---------------------------- MODULE Spec2Model ----------------------------
(***************************************************************************)
(* A model of a_star.py: the two grid searches MinTurns.search and         *)
(* ShortestRoute.search, their find_neighbors and make_path helpers, and    *)
(* the caller of main.py that runs MinTurns and then ShortestRoute on the   *)
(* same (start, end, grid).                                                 *)
(*                                                                          *)
(* Cells are Python tuples (row, col), 0-indexed: <<row, col>>.  The grid   *)
(* is a list of N strings of length N: a sequence of N sequences over       *)
(* {".", "x"}, so grid[r][c] of the source is grid[r + 1][c + 1] here.      *)
(* Python's None is the empty tuple <<>>; a dict is a function whose        *)
(* DOMAIN is its key set; the heap is kept as the sorted sequence of its    *)
(* entries, so heappop is Head/Tail.                                        *)
(***************************************************************************)
EXTENDS Integers, Sequences, FiniteSets, TLC

\* Largest grid side explored; grids of every side 1..MaxN are drawn.
MaxN == 3

\* How many times the caller runs the pair of searches on the same inputs.
MaxRounds == 2

\* Most barrier cells of a grid in the runs checked for termination.
MaxBarriers == 2

VARIABLES
    grid,        \* AStar.grid
    start_pos,   \* AStar.start_pos
    end_pos,     \* AStar.end_pos
    pc,          \* "idle", or the search whose loop is running
    visited,     \* local of search(): set of finalized cells
    route,       \* local of search(): dict cell -> None | <<cost, prev>>
    turn_count,  \* local of MinTurns.search(): dict cell -> turns
    open_pos,    \* local of search(): the heap of <<priority, cell>>
    expanded,    \* history: the cells finalized by the running search, in order
    returned     \* history: the values returned by the calls made so far

vars == <<grid, start_pos, end_pos, pc, visited, route, turn_count, open_pos,
          expanded, returned>>

None == <<>>

NoPathFound == [message |-> "No path found.", path |-> <<>>]

\* zip([0, -1, 0, 1], [1, 0, -1, 0]): the <<y, x>> offsets in the order tried.
Offsets == << <<0, 1>>, <<-1, 0>>, <<0, -1>>, <<1, 0>> >>

Cells(g) == (0 .. Len(g) - 1) \X (0 .. Len(g) - 1)

IsOpen(g, p) == g[p[1] + 1][p[2] + 1] # "x"

-----------------------------------------------------------------------------
(* dict and heapq *)

\* d.get(k): None when the key is missing.
Get(d, k) == IF k \in DOMAIN d THEN d[k] ELSE None

\* d[k] = v
Put(d, k, v) == (k :> v) @@ d

\* Python's tuple order on heap entries (priority, (row, col)).
EntryLess(a, b) ==
    \/ a[1] < b[1]
    \/ /\ a[1] = b[1]
       /\ \/ a[2][1] < b[2][1]
          \/ a[2][1] = b[2][1] /\ a[2][2] < b[2][2]

\* heappush(h, e): the heap as the sorted sequence of its entries.
heappush(h, e) ==
    LET k == Cardinality({i \in 1 .. Len(h) : ~EntryLess(e, h[i])})
    IN  SubSeq(h, 1, k) \o <<e>> \o SubSeq(h, k + 1, Len(h))

-----------------------------------------------------------------------------
(* ShortestRoute *)

\* ShortestRoute.find_neighbors: the in-grid, non-barrier cells next to
\* curr_pos, in the order of Offsets.
ShortestRoute_find_neighbors(g, curr_pos) ==
    LET limit == Len(g) - 1
        cand(i) == <<curr_pos[1] + Offsets[i][1], curr_pos[2] + Offsets[i][2]>>
        skip(i) == \/ cand(i)[1] > limit \/ cand(i)[1] < 0
                   \/ cand(i)[2] > limit \/ cand(i)[2] < 0
                   \/ g[cand(i)[1] + 1][cand(i)[2] + 1] = "x"
        F[i \in 0 .. 4] ==
            IF i = 0 THEN <<>>
            ELSE IF skip(i) THEN F[i - 1] ELSE Append(F[i - 1], cand(i))
    IN  F[4]

\* ShortestRoute.make_path, were it to count the steps of the chain rather
\* than its cells.
RECURSIVE ShortestRoute_make_path_steps(_, _)
ShortestRoute_make_path_steps(rt, p) ==
    IF rt[p][2] = None THEN 0 ELSE 1 + ShortestRoute_make_path_steps(rt, rt[p][2])

\* ShortestRoute.make_path: the number of cells on the predecessor chain
\* from p back to the entry whose predecessor is None.
RECURSIVE ShortestRoute_make_path(_, _)
ShortestRoute_make_path(rt, p) ==
    IF p = None THEN 0 ELSE 1 + ShortestRoute_make_path(rt, rt[p][2])

\* "length += 1" of the neighbour loop: length is the loop's own variable and
\* is carried from one neighbour to the next.
ShortestRoute_step_length(length) == length + 1

\* One pass of the "for neighbor in neighbors" loop of ShortestRoute.search
\* on st = <<length, open_pos, route>>.
ShortestRoute_visit(st, neighbor, curr_pos, vis) ==
    IF neighbor \in vis THEN st
    ELSE LET length2   == ShortestRoute_step_length(st[1])
             old_route == Get(st[3], neighbor)
             rt2 == IF old_route # None /\ length2 < old_route[1]
                    THEN Put(st[3], neighbor, <<length2, curr_pos>>)
                    ELSE IF old_route = None
                         THEN Put(st[3], neighbor, <<length2, curr_pos>>)
                         ELSE st[3]
         IN  <<length2, heappush(st[2], <<length2, neighbor>>), rt2>>

\* The "for neighbor in neighbors" loop of ShortestRoute.search: the passes
\* in the order of neighbors, each on the values the pass before left.
\* Returns <<length, open_pos, route>>.
ShortestRoute_relax(neighbors, curr_pos, vis, length, heap, rt) ==
    LET F[i \in 0 .. Len(neighbors)] ==
            IF i = 0 THEN <<length, heap, rt>>
            ELSE CHOOSE st2 \in {ShortestRoute_visit(st, neighbors[i], curr_pos, vis) :
                                     st \in {F[i - 1]}} : TRUE
    IN  F[Len(neighbors)]

\* The caller runs MinTurns first and ShortestRoute second, MaxRounds times.
ShortestRoute_turn == Len(returned) % 2 = 1

\* ShortestRoute.search, up to the loop: fresh visited, route and heap.
ShortestRoute_call ==
    /\ pc = "idle"
    /\ ShortestRoute_turn
    /\ pc' = "ShortestRoute"
    /\ visited' = {}
    /\ route' = (start_pos :> <<1, None>>)
    /\ open_pos' = heappush(<<>>, <<1, start_pos>>)
    /\ expanded' = <<>>
    /\ UNCHANGED <<grid, start_pos, end_pos, turn_count, returned>>

\* One pass of the while loop that pops end_pos: return make_path(route).
ShortestRoute_pop_end ==
    /\ pc = "ShortestRoute"
    /\ open_pos # <<>>
    /\ Head(open_pos)[2] = end_pos
    /\ open_pos' = Tail(open_pos)
    /\ returned' = Append(returned,
                          [path_length |-> ShortestRoute_make_path(route, end_pos)])
    /\ pc' = "idle"
    /\ UNCHANGED <<grid, start_pos, end_pos, visited, route, turn_count, expanded>>

\* One pass of the while loop that pops an already visited cell: continue.
ShortestRoute_pop_visited ==
    /\ pc = "ShortestRoute"
    /\ open_pos # <<>>
    /\ Head(open_pos)[2] # end_pos
    /\ Head(open_pos)[2] \in visited
    /\ open_pos' = Tail(open_pos)
    /\ UNCHANGED <<grid, start_pos, end_pos, pc, visited, route, turn_count,
                   expanded, returned>>

\* One pass of the while loop that finalizes the popped cell and handles its
\* neighbours.
ShortestRoute_expand ==
    /\ pc = "ShortestRoute"
    /\ open_pos # <<>>
    /\ LET length   == Head(open_pos)[1]
           curr_pos == Head(open_pos)[2]
       IN  /\ curr_pos # end_pos
           /\ curr_pos \notin visited
           /\ visited' = visited \cup {curr_pos}
           /\ expanded' = Append(expanded, curr_pos)
           /\ \E r \in {ShortestRoute_relax(ShortestRoute_find_neighbors(grid, curr_pos),
                                           curr_pos, visited \cup {curr_pos}, length,
                                           Tail(open_pos), route)} :
                  /\ open_pos' = r[2]
                  /\ route' = r[3]
    /\ UNCHANGED <<grid, start_pos, end_pos, pc, turn_count, returned>>

\* The while loop ends with the heap empty: return 'No path found.', [].
ShortestRoute_exhausted ==
    /\ pc = "ShortestRoute"
    /\ open_pos = <<>>
    /\ returned' = Append(returned, NoPathFound)
    /\ pc' = "idle"
    /\ UNCHANGED <<grid, start_pos, end_pos, visited, route, turn_count, open_pos,
                   expanded>>

-----------------------------------------------------------------------------
(* MinTurns *)

\* MinTurns.find_neighbors, were the direction of arrival read off the column
\* instead of the row: arriving along a column counts as horizontal.
MinTurns_find_neighbors_swapped_axes(g, start, curr_pos, prev_pos) ==
    LET limit == Len(g) - 1
        cand(i) == <<curr_pos[1] + Offsets[i][1], curr_pos[2] + Offsets[i][2]>>
        skip(i) == \/ cand(i)[1] > limit \/ cand(i)[1] < 0
                   \/ cand(i)[2] > limit \/ cand(i)[2] < 0
                   \/ g[cand(i)[1] + 1][cand(i)[2] + 1] = "x"
        direction == IF curr_pos # prev_pos[2] /\ curr_pos[2] = prev_pos[2][2]
                     THEN "horizontal" ELSE "vertical"
        movement(i) == IF Offsets[i][1] # 0 THEN "vertical" ELSE "horizontal"
        is_turn(i) == IF curr_pos = start THEN FALSE
                      ELSE ~(movement(i) = direction)
        F[i \in 0 .. 4] ==
            IF i = 0 THEN <<>>
            ELSE IF skip(i) THEN F[i - 1]
                 ELSE Append(F[i - 1], <<cand(i), is_turn(i)>>)
    IN  F[4]

\* MinTurns.find_neighbors, were the barrier test left out.
MinTurns_find_neighbors_no_barrier(g, start, curr_pos, prev_pos) ==
    LET limit == Len(g) - 1
        cand(i) == <<curr_pos[1] + Offsets[i][1], curr_pos[2] + Offsets[i][2]>>
        skip(i) == \/ cand(i)[1] > limit \/ cand(i)[1] < 0
                   \/ cand(i)[2] > limit \/ cand(i)[2] < 0
        direction == IF curr_pos # prev_pos[2] /\ curr_pos[1] = prev_pos[2][1]
                     THEN "horizontal" ELSE "vertical"
        movement(i) == IF Offsets[i][1] # 0 THEN "vertical" ELSE "horizontal"
        is_turn(i) == IF curr_pos = start THEN FALSE
                      ELSE ~(movement(i) = direction)
        F[i \in 0 .. 4] ==
            IF i = 0 THEN <<>>
            ELSE IF skip(i) THEN F[i - 1]
                 ELSE Append(F[i - 1], <<cand(i), is_turn(i)>>)
    IN  F[4]

\* MinTurns.find_neighbors: the in-grid, non-barrier cells next to curr_pos,
\* in the order of Offsets, each with is_turn; prev_pos is route[curr_pos].
MinTurns_find_neighbors(g, start, curr_pos, prev_pos) ==
    LET limit == Len(g) - 1
        cand(i) == <<curr_pos[1] + Offsets[i][1], curr_pos[2] + Offsets[i][2]>>
        skip(i) == \/ cand(i)[1] > limit \/ cand(i)[1] < 0
                   \/ cand(i)[2] > limit \/ cand(i)[2] < 0
                   \/ g[cand(i)[1] + 1][cand(i)[2] + 1] = "x"
        direction == IF curr_pos # prev_pos[2] /\ curr_pos[1] = prev_pos[2][1]
                     THEN "horizontal" ELSE "vertical"
        movement(i) == IF Offsets[i][1] # 0 THEN "vertical" ELSE "horizontal"
        is_turn(i) == IF curr_pos = start THEN FALSE
                      ELSE ~(movement(i) = direction)
        F[i \in 0 .. 4] ==
            IF i = 0 THEN <<>>
            ELSE IF skip(i) THEN F[i - 1]
                 ELSE Append(F[i - 1], <<cand(i), is_turn(i)>>)
    IN  F[4]

\* The while loop of MinTurns.make_path, were "prev_pos is not self.end_pos"
\* left out: an axis change seen on the first step back from end is recorded.
RECURSIVE MinTurns_walk_records_end(_, _, _, _, _, _, _)
MinTurns_walk_records_end(rt, curr_pos, prev_pos, prev_is_end, x, turn_coords, path_length) ==
    IF rt[curr_pos] = None
    THEN [turn_count |-> Len(turn_coords), path_length |-> path_length]
    ELSE LET curr2   == rt[curr_pos][2]
             changed == curr2[x + 1] # prev_pos[x + 1]
             x2      == IF changed THEN (IF x = 0 THEN 1 ELSE 0) ELSE x
             coords2 == IF changed THEN Append(turn_coords, prev_pos) ELSE turn_coords
         IN  MinTurns_walk_records_end(rt, curr2, curr2, FALSE, x2, coords2,
                                       path_length + 1)

\* The while loop of MinTurns.make_path, were x never switched to the other
\* coordinate.
RECURSIVE MinTurns_walk_fixed_x(_, _, _, _, _, _, _)
MinTurns_walk_fixed_x(rt, curr_pos, prev_pos, prev_is_end, x, turn_coords, path_length) ==
    IF rt[curr_pos] = None
    THEN [turn_count |-> Len(turn_coords), path_length |-> path_length]
    ELSE LET curr2   == rt[curr_pos][2]
             changed == curr2[x + 1] # prev_pos[x + 1]
             coords2 == IF changed /\ ~prev_is_end
                        THEN Append(turn_coords, prev_pos) ELSE turn_coords
         IN  MinTurns_walk_fixed_x(rt, curr2, curr2, FALSE, x, coords2,
                                   path_length + 1)

\* The while loop of MinTurns.make_path.  prev_is_end is "prev_pos is
\* self.end_pos": an identity test, true only before the first assignment
\* prev_pos = curr_pos, since the cells stored in route are other objects.
RECURSIVE MinTurns_walk(_, _, _, _, _, _, _)
MinTurns_walk(rt, curr_pos, prev_pos, prev_is_end, x, turn_coords, path_length) ==
    IF rt[curr_pos] = None
    THEN [turn_count |-> Len(turn_coords), path_length |-> path_length]
    ELSE LET curr2   == rt[curr_pos][2]
             changed == curr2[x + 1] # prev_pos[x + 1]
             x2      == IF changed THEN (IF x = 0 THEN 1 ELSE 0) ELSE x
             coords2 == IF changed /\ ~prev_is_end
                        THEN Append(turn_coords, prev_pos) ELSE turn_coords
         IN  MinTurns_walk(rt, curr2, curr2, FALSE, x2, coords2, path_length + 1)

\* MinTurns.make_path, were path_length to start at 0: the steps of the chain
\* are counted rather than its cells.
MinTurns_make_path_counts_steps(rt, end) ==
    IF Get(rt, end) = None THEN NoPathFound
    ELSE MinTurns_walk(rt, end, end, TRUE, 0, <<>>, 0)

\* MinTurns.make_path(self.end_pos, route).
MinTurns_make_path(rt, end) ==
    IF Get(rt, end) = None THEN NoPathFound
    ELSE MinTurns_walk(rt, end, end, TRUE, 0, <<>>, 1)

\* "if turn_count.get(pos)": the truth value of the stored count.
MinTurns_seen(tc, pos) == pos \in DOMAIN tc /\ tc[pos] # 0

Min(a, b) == IF a <= b THEN a ELSE b

\* The pass of the neighbour loop of MinTurns.search, were the count always
\* overwritten with the current route's, without min().
MinTurns_visit_overwrites(st, pos, did_turn, curr_pos, vis, turns_so_far) ==
    IF pos \in vis THEN st
    ELSE LET cand == turns_so_far + (IF did_turn THEN 1 ELSE 0)
             tc2  == Put(st[1], pos, cand)
             old_route == Get(st[3], pos)
             rt2 == IF old_route # None /\ tc2[pos] < old_route[1]
                    THEN Put(st[3], pos, <<tc2[pos], curr_pos>>)
                    ELSE IF old_route = None
                         THEN Put(st[3], pos, <<tc2[pos], curr_pos>>)
                         ELSE st[3]
         IN  <<tc2, heappush(st[2], <<tc2[pos], pos>>), rt2>>

\* The pass of the neighbour loop of MinTurns.search, were the overwrite of a
\* known route by one of fewer turns left out: only the first route is kept.
MinTurns_visit_keeps_first_route(st, pos, did_turn, curr_pos, vis, turns_so_far) ==
    IF pos \in vis THEN st
    ELSE LET cand == turns_so_far + (IF did_turn THEN 1 ELSE 0)
             tc2  == IF MinTurns_seen(st[1], pos)
                     THEN Put(st[1], pos, Min(st[1][pos], cand))
                     ELSE Put(st[1], pos, cand)
             old_route == Get(st[3], pos)
             rt2 == IF old_route = None
                    THEN Put(st[3], pos, <<tc2[pos], curr_pos>>)
                    ELSE st[3]
         IN  <<tc2, heappush(st[2], <<tc2[pos], pos>>), rt2>>

\* The pass of the neighbour loop of MinTurns.search, were
\* "if pos in visited: continue" left out.
MinTurns_visit_no_skip(st, pos, did_turn, curr_pos, vis, turns_so_far) ==
    LET cand == turns_so_far + (IF did_turn THEN 1 ELSE 0)
        tc2  == IF MinTurns_seen(st[1], pos)
                THEN Put(st[1], pos, Min(st[1][pos], cand))
                ELSE Put(st[1], pos, cand)
        old_route == Get(st[3], pos)
        rt2 == IF old_route # None /\ tc2[pos] < old_route[1]
               THEN Put(st[3], pos, <<tc2[pos], curr_pos>>)
               ELSE IF old_route = None
                    THEN Put(st[3], pos, <<tc2[pos], curr_pos>>)
                    ELSE st[3]
    IN  <<tc2, heappush(st[2], <<tc2[pos], pos>>), rt2>>

\* One pass of the "for pos, did_turn in neighbors_list" loop of
\* MinTurns.search on st = <<turn_count, open_pos, route>>.
MinTurns_visit(st, pos, did_turn, curr_pos, vis, turns_so_far) ==
    IF pos \in vis THEN st
    ELSE LET cand == turns_so_far + (IF did_turn THEN 1 ELSE 0)
             tc2  == IF MinTurns_seen(st[1], pos)
                     THEN Put(st[1], pos, Min(st[1][pos], cand))
                     ELSE Put(st[1], pos, cand)
             old_route == Get(st[3], pos)
             rt2 == IF old_route # None /\ tc2[pos] < old_route[1]
                    THEN Put(st[3], pos, <<tc2[pos], curr_pos>>)
                    ELSE IF old_route = None
                         THEN Put(st[3], pos, <<tc2[pos], curr_pos>>)
                         ELSE st[3]
         IN  <<tc2, heappush(st[2], <<tc2[pos], pos>>), rt2>>

\* The "for pos, did_turn in neighbors_list" loop of MinTurns.search: the
\* passes in the order of neighbors_list, each on the values the pass before
\* left.  Returns <<turn_count, open_pos, route>>.
MinTurns_relax(neighbors_list, curr_pos, vis, turns_so_far, tc, heap, rt) ==
    LET F[i \in 0 .. Len(neighbors_list)] ==
            IF i = 0 THEN <<tc, heap, rt>>
            ELSE CHOOSE st2 \in {MinTurns_visit(st, neighbors_list[i][1],
                                                neighbors_list[i][2], curr_pos, vis,
                                                turns_so_far) :
                                     st \in {F[i - 1]}} : TRUE
    IN  F[Len(neighbors_list)]

\* The caller runs MinTurns first and ShortestRoute second, MaxRounds times.
MinTurns_turn == Len(returned) % 2 = 0 /\ Len(returned) < 2 * MaxRounds

\* MinTurns.search, were visited kept from the call before.
MinTurns_call_keeps_visited ==
    /\ pc = "idle"
    /\ MinTurns_turn
    /\ pc' = "MinTurns"
    /\ route' = (start_pos :> None)
    /\ turn_count' = (start_pos :> 0)
    /\ open_pos' = heappush(<<>>, <<0, start_pos>>)
    /\ expanded' = <<>>
    /\ UNCHANGED <<grid, start_pos, end_pos, visited, returned>>

\* MinTurns.search, up to the loop: fresh visited, route, turn_count and heap.
MinTurns_call ==
    /\ pc = "idle"
    /\ MinTurns_turn
    /\ pc' = "MinTurns"
    /\ visited' = {}
    /\ route' = (start_pos :> None)
    /\ turn_count' = (start_pos :> 0)
    /\ open_pos' = heappush(<<>>, <<0, start_pos>>)
    /\ expanded' = <<>>
    /\ UNCHANGED <<grid, start_pos, end_pos, returned>>

\* One pass of the while loop that pops an already visited cell: continue.
MinTurns_pop_visited ==
    /\ pc = "MinTurns"
    /\ open_pos # <<>>
    /\ Head(open_pos)[2] \in visited
    /\ open_pos' = Tail(open_pos)
    /\ UNCHANGED <<grid, start_pos, end_pos, pc, visited, route, turn_count,
                   expanded, returned>>

\* The pass of MinTurns.search, were "if curr_pos in visited: continue" left
\* out: a popped cell is handled whether or not it is finalized already.
MinTurns_expand_revisits ==
    /\ pc = "MinTurns"
    /\ open_pos # <<>>
    /\ LET turns_so_far == Head(open_pos)[1]
           curr_pos     == Head(open_pos)[2]
       IN  /\ visited' = visited \cup {curr_pos}
           /\ expanded' = Append(expanded, curr_pos)
           /\ \E r \in {MinTurns_relax(
                              MinTurns_find_neighbors(grid, start_pos, curr_pos,
                                                      route[curr_pos]),
                              curr_pos, visited \cup {curr_pos}, turns_so_far,
                              turn_count, Tail(open_pos), route)} :
                  /\ turn_count' = r[1]
                  /\ open_pos' = r[2]
                  /\ route' = r[3]
    /\ UNCHANGED <<grid, start_pos, end_pos, pc, returned>>

\* One pass of the while loop that finalizes the popped cell and handles its
\* neighbours.
MinTurns_expand ==
    /\ pc = "MinTurns"
    /\ open_pos # <<>>
    /\ LET turns_so_far == Head(open_pos)[1]
           curr_pos     == Head(open_pos)[2]
       IN  /\ curr_pos \notin visited
           /\ visited' = visited \cup {curr_pos}
           /\ expanded' = Append(expanded, curr_pos)
           /\ \E r \in {MinTurns_relax(
                              MinTurns_find_neighbors(grid, start_pos, curr_pos,
                                                      route[curr_pos]),
                              curr_pos, visited \cup {curr_pos}, turns_so_far,
                              turn_count, Tail(open_pos), route)} :
                  /\ turn_count' = r[1]
                  /\ open_pos' = r[2]
                  /\ route' = r[3]
    /\ UNCHANGED <<grid, start_pos, end_pos, pc, returned>>

\* The while loop ends with the heap empty: return make_path(end_pos, route).
MinTurns_return ==
    /\ pc = "MinTurns"
    /\ open_pos = <<>>
    /\ returned' = Append(returned, MinTurns_make_path(route, end_pos))
    /\ pc' = "idle"
    /\ UNCHANGED <<grid, start_pos, end_pos, visited, route, turn_count, open_pos,
                   expanded>>

-----------------------------------------------------------------------------
(* The system *)

Sides == 1 .. MaxN

\* AStar.__init__ on a square grid of '.' and 'x' with start and end on open
\* cells; no search has been called yet.
Init ==
    /\ \E n \in Sides : grid \in [1 .. n -> [1 .. n -> {".", "x"}]]
    /\ start_pos \in {p \in Cells(grid) : IsOpen(grid, p)}
    /\ end_pos \in {p \in Cells(grid) : IsOpen(grid, p)}
    /\ pc = "idle"
    /\ visited = {}
    /\ route = <<>>
    /\ turn_count = <<>>
    /\ open_pos = <<>>
    /\ expanded = <<>>
    /\ returned = <<>>

Next ==
    \/ MinTurns_call
    \/ MinTurns_pop_visited
    \/ MinTurns_expand
    \/ MinTurns_return
    \/ ShortestRoute_call
    \/ ShortestRoute_pop_end
    \/ ShortestRoute_pop_visited
    \/ ShortestRoute_expand
    \/ ShortestRoute_exhausted

Spec == Init /\ [][Next]_vars

\* The number of barrier cells of a grid.
Barriers(g) == Cardinality({p \in Cells(g) : ~IsOpen(g, p)})

\* The grids with at most MaxBarriers barrier cells.
FewBarriersInit == Init /\ Barriers(grid) <= MaxBarriers

\* search() is a synchronous loop: a call that has started keeps running.
FairSpec == FewBarriersInit /\ [][Next]_vars /\ WF_vars(Next)

-----------------------------------------------------------------------------
(* Reference notions the properties are stated against: the 4-adjacency     *)
(* graph of the open cells, its breadth-first distance, and the fewest axis *)
(* changes of any walk between two cells.                                   *)

Adjacent(g, p) ==
    {q \in Cells(g) :
        /\ IsOpen(g, q)
        /\ \/ q[1] = p[1] /\ q[2] - p[2] \in {-1, 1}
           \/ q[2] = p[2] /\ q[1] - p[1] \in {-1, 1}}

\* Breadth-first layers from the frontier; d is the number of cells on a
\* shortest path to the frontier's cells.  0 when e is never met.
RECURSIVE BreadthFirst(_, _, _, _, _)
BreadthFirst(g, e, seen, frontier, d) ==
    IF e \in frontier THEN d
    ELSE IF frontier = {} THEN 0
    ELSE LET next == UNION {Adjacent(g, p) : p \in frontier} \ seen
         IN  BreadthFirst(g, e, seen \cup next, next, d + 1)

\* The number of cells on a shortest path from s to e; 0 when there is none.
GraphDistance(g, s, e) == BreadthFirst(g, e, {s}, {s}, 1)

Reachable(g, s, e) == GraphDistance(g, s, e) > 0

\* The open cells next to p along an axis.
Along(g, p, axis) ==
    {q \in Adjacent(g, p) : IF axis = "horizontal" THEN q[1] = p[1] ELSE q[2] = p[2]}

OtherAxis(axis) == IF axis = "horizontal" THEN "vertical" ELSE "horizontal"

\* The <<cell, axis>> pairs reached from those of S by moving on along the
\* axis, any number of cells.
RECURSIVE Slide(_, _)
Slide(g, S) ==
    LET T == S \cup UNION {{<<q, sa[2]>> : q \in Along(g, sa[1], sa[2])} : sa \in S}
    IN  IF T = S THEN S ELSE Slide(g, T)

\* R holds the <<cell, axis of the last move>> pairs some walk from the start
\* reaches with at most k axis changes.  -1 when e is never met.
RECURSIVE FewestTurnsFrom(_, _, _, _)
FewestTurnsFrom(g, e, R, k) ==
    IF \E sa \in R : sa[1] = e THEN k
    ELSE LET R2 == Slide(g, R \cup {<<sa[1], OtherAxis(sa[2])>> : sa \in R})
         IN  IF R2 = R THEN -1 ELSE FewestTurnsFrom(g, e, R2, k + 1)

\* The fewest axis changes of any walk of 4-adjacent open cells from s to e
\* (the first move is in either axis at no cost).
FewestTurns(g, s, e) ==
    FewestTurnsFrom(g, e, Slide(g, {<<s, "horizontal">>, <<s, "vertical">>}), 0)

\* The value returned by the k-th call, when it has returned.
Returned(k) == Len(returned) >= k

\* Calls 1, 3, ... are MinTurns.search; calls 2, 4, ... are ShortestRoute.search.
MinTurnsResult == returned[1]

ShortestRouteResult == returned[2]

-----------------------------------------------------------------------------
(* Properties *)

\* C1: for a reachable end, ShortestRoute.search returns the graph distance
\* from start to end counted in cells, as an independent breadth-first
\* search computes it.
C1_ShortestRouteOptimal ==
    Returned(2) /\ Reachable(grid, start_pos, end_pos)
        => ShortestRouteResult = [path_length |-> GraphDistance(grid, start_pos, end_pos)]

\* C2: for a reachable end, the turn count MinTurns.search returns is at most
\* the number of axis changes of every valid path from start to end.
C2_MinTurnsOptimal ==
    Returned(1) /\ start_pos # end_pos /\ Reachable(grid, start_pos, end_pos)
        => /\ MinTurnsResult # NoPathFound
           /\ MinTurnsResult.turn_count <= FewestTurns(grid, start_pos, end_pos)

\* C3: with start = end, MinTurns.search returns the success result
\* (0 turns, path length 1), not NoPathFound.
C3_MinTurnsStartIsEnd ==
    Returned(1) /\ start_pos = end_pos
        => MinTurnsResult = [turn_count |-> 0, path_length |-> 1]

\* C4: with start = end, ShortestRoute.search returns path length 1.
C4_ShortestRouteStartIsEnd ==
    Returned(2) /\ start_pos = end_pos
        => ShortestRouteResult = [path_length |-> 1]

C4_Witness ==
    /\ Returned(2)
    /\ start_pos = end_pos
    /\ Len(grid) > 1
    /\ Adjacent(grid, start_pos) # {}

\* C5: when end is not reachable from start and start # end, both searches
\* return NoPathFound, never a numeric result.
C5_UnreachableNoPathFound ==
    start_pos # end_pos /\ ~Reachable(grid, start_pos, end_pos)
        => /\ Returned(1) => MinTurnsResult = NoPathFound
           /\ Returned(2) => ShortestRouteResult = NoPathFound

\* Both searches have returned for an end cut off from a start that has open
\* neighbours.
C5_Witness ==
    /\ Returned(2)
    /\ start_pos # end_pos
    /\ ~Reachable(grid, start_pos, end_pos)
    /\ Adjacent(grid, start_pos) # {}
    /\ MinTurnsResult = NoPathFound
    /\ ShortestRouteResult = NoPathFound

\* The grid ['.x.', '...', '.x.'].
Grid6 == << <<".", "x", ".">>, <<".", ".", ".">>, <<".", "x", ".">> >>

\* C6: on ['.x.', '...', '.x.'] from (0,0) to (0,2), ShortestRoute.search
\* returns length 5 and MinTurns.search a turn count of exactly 2.
C6_DetourScenario ==
    grid = Grid6 /\ start_pos = <<0, 0>> /\ end_pos = <<0, 2>>
        => /\ Returned(1) => /\ MinTurnsResult # NoPathFound
                             /\ MinTurnsResult.turn_count = 2
           /\ Returned(2) => ShortestRouteResult = [path_length |-> 5]

C6_Witness ==
    /\ grid = Grid6 /\ start_pos = <<0, 0>> /\ end_pos = <<0, 2>>
    /\ Returned(2)

\* The fully open 2x2 grid.
Grid7 == << <<".", ".">>, <<".", ".">> >>

\* C7: on the fully open 2x2 grid from (0,0) to (1,1), ShortestRoute.search
\* returns length 3 and MinTurns.search a turn count of 1.
C7_OpenSquareScenario ==
    grid = Grid7 /\ start_pos = <<0, 0>> /\ end_pos = <<1, 1>>
        => /\ Returned(1) => /\ MinTurnsResult # NoPathFound
                             /\ MinTurnsResult.turn_count = 1
           /\ Returned(2) => ShortestRouteResult = [path_length |-> 3]

C7_Witness ==
    /\ grid = Grid7 /\ start_pos = <<0, 0>> /\ end_pos = <<1, 1>>
    /\ Returned(2)

\* No cell occurs twice among the cells the running search has finalized.
ExpandedOnce ==
    \A i, j \in 1 .. Len(expanded) : expanded[i] = expanded[j] => i = j

\* C8: a started search returns (the loop ends), and during one search each
\* cell is finalized at most once, so there are at most N * N expansions on
\* an N x N grid.
C8_TerminatesWithinBound ==
    /\ [](ExpandedOnce /\ Len(expanded) <= Len(grid) * Len(grid))
    /\ (pc # "idle") ~> (pc = "idle")

\* A MinTurns search has returned after finalizing every cell of a grid of
\* more than one cell.
C8_Witness ==
    /\ pc = "idle"
    /\ Len(returned) = 1
    /\ Len(grid) > 1
    /\ Len(expanded) = Len(grid) * Len(grid)

\* C9: a second run of the same search on the same (start, end, grid)
\* returns what the first run returned, and no step of a search changes
\* start_pos, end_pos or grid.
C9_RepeatedCallsAgree ==
    /\ [](\A i, j \in 1 .. Len(returned) :
              i % 2 = j % 2 => returned[i] = returned[j])
    /\ [][UNCHANGED <<grid, start_pos, end_pos>>]_vars

\* Both searches have run twice on a pair they find a path for.
C9_Witness ==
    /\ Returned(4)
    /\ start_pos # end_pos
    /\ returned[3] # NoPathFound
    /\ returned[4] # NoPathFound

\* The heap after pushing the entries of a sequence, in order.
RECURSIVE PushAll(_, _)
PushAll(h, entries) ==
    IF entries = <<>> THEN h
    ELSE PushAll(heappush(h, Head(entries)), Tail(entries))

\* C10: when ShortestRoute.search expands a cell popped with length L, every
\* open unvisited neighbour is pushed with priority exactly L + 1 and a route
\* entry written for it records L + 1; so the length recorded for a cell is
\* the number of cells on its predecessor chain.
C10_NeighboursOneFarther ==
    /\ [][ShortestRoute_expand =>
            LET L     == Head(open_pos)[1]
                curr  == Head(open_pos)[2]
                fresh == SelectSeq(ShortestRoute_find_neighbors(grid, curr),
                                   LAMBDA n : n \notin visited')
            IN  /\ open_pos' = PushAll(Tail(open_pos),
                                       [i \in 1 .. Len(fresh) |-> <<L + 1, fresh[i]>>])
                /\ \A i \in 1 .. Len(fresh) :
                       Get(route', fresh[i]) # Get(route, fresh[i])
                           => route'[fresh[i]] = <<L + 1, curr>>]_vars
    /\ [](pc = "ShortestRoute" =>
            \A c \in DOMAIN route : route[c][1] = ShortestRoute_make_path(route, c))

\* C11: during a MinTurns search the turn_count entry of a cell never
\* increases once set, cells whose count is 0 included: every pass of the
\* loop leaves each existing entry at or below its value.
C11_TurnCountNeverIncreases ==
    [][pc = "MinTurns" =>
          \A c \in DOMAIN turn_count :
              c \in DOMAIN turn_count' /\ turn_count'[c] <= turn_count[c]]_vars

\* An unfinalized cell waits in the heap under two different counts: its
\* count was set, and set again to a lower value by a later pass.
C11_Witness ==
    /\ pc = "MinTurns"
    /\ \E i, j \in 1 .. Len(open_pos) :
           /\ open_pos[i][2] = open_pos[j][2]
           /\ open_pos[i][1] < open_pos[j][1]
           /\ open_pos[i][2] \notin visited
           /\ turn_count[open_pos[i][2]] = open_pos[i][1]

\* The loop of the latest MinTurns search has ended with the heap empty; its
\* route and turn_count stay as the loop left them until the next call.
MinTurnsExhausted ==
    \/ pc = "MinTurns" /\ open_pos = <<>>
    \/ pc = "idle" /\ Len(returned) % 2 = 1

\* C12: when the frontier of MinTurns.search is exhausted, for every cell
\* other than start that has a route entry, the cost recorded in the route
\* map equals the cell's turn_count entry.
C12_MapsConverge ==
    MinTurnsExhausted
        => \A c \in DOMAIN route \ {start_pos} :
               c \in DOMAIN turn_count /\ route[c][1] = turn_count[c]

\* The frontier is exhausted by a search that recorded a route for more than
\* four cells, one of them at a cost above 0.
C12_Witness ==
    /\ pc = "MinTurns"
    /\ open_pos = <<>>
    /\ \E c \in DOMAIN route \ {start_pos} : route[c][1] > 0
    /\ Cardinality(DOMAIN route) > 4

\* C13: during a search the visited set only grows, and the route entry of
\* a visited cell (in MinTurns, its turn_count entry too) is never changed
\* by a later step of that search.
C13_FinalizedIsFrozen ==
    [][pc # "idle" =>
          /\ visited \subseteq visited'
          /\ \A c \in visited :
                 /\ c \in DOMAIN route /\ c \in DOMAIN route'
                 /\ route'[c] = route[c]
                 /\ pc = "MinTurns" =>
                        /\ c \in DOMAIN turn_count /\ c \in DOMAIN turn_count'
                        /\ turn_count'[c] = turn_count[c]]_vars

\* The cell finalized last by a running MinTurns search lies next to a cell
\* finalized earlier that is not its predecessor: its pass of the loop met a
\* visited neighbour whose entries it had to leave alone.
C13_Witness ==
    /\ pc = "MinTurns"
    /\ Len(expanded) >= 3
    /\ LET last == expanded[Len(expanded)]
       IN  \E q \in Adjacent(grid, last) \cap visited :
               q # last /\ q # route[last][2]

\* The cells met from p by following the predecessors recorded in rt, p
\* first, up to the cell recorded without a predecessor; at most n cells.
RECURSIVE ChainFrom(_, _, _)
ChainFrom(rt, p, n) ==
    IF n = 0 \/ p \notin DOMAIN rt THEN <<>>
    ELSE IF rt[p] = None \/ rt[p][2] = None THEN <<p>>
    ELSE <<p>> \o ChainFrom(rt, rt[p][2], n - 1)

\* The chain followed from end_pos through the route map of the latest
\* search; a chain that does not close within the number of cells of the
\* grid is cut and then does not end at start_pos.
EndChain == ChainFrom(route, end_pos, Cardinality(Cells(grid)) + 1)

\* ch runs from end_pos to start_pos over distinct open cells of the grid,
\* each next to the one before.
IsPathBack(ch) ==
    /\ Len(ch) >= 1
    /\ ch[1] = end_pos
    /\ ch[Len(ch)] = start_pos
    /\ \A i, j \in 1 .. Len(ch) : ch[i] = ch[j] => i = j
    /\ \A i \in 1 .. Len(ch) : ch[i] \in Cells(grid) /\ IsOpen(grid, ch[i])
    /\ \A i \in 1 .. Len(ch) - 1 : ch[i + 1] \in Adjacent(grid, ch[i])

\* C14: when end is reachable and start # end, each search returns a success
\* result; the predecessor chain it reconstructs from end is finite and
\* cycle-free, runs over in-bounds open cells that are 4-adjacent in turn,
\* ends at start, and the returned path_length is its number of cells.
C14_ReconstructedChain ==
    (/\ pc = "idle"
     /\ Len(returned) > 0
     /\ start_pos # end_pos
     /\ Reachable(grid, start_pos, end_pos))
        => LET res == returned[Len(returned)]
           IN  /\ res # NoPathFound
               /\ IsPathBack(EndChain)
               /\ res.path_length = Len(EndChain)

\* MinTurns.search has just returned a path of at least four cells.
C14_Witness ==
    /\ pc = "idle"
    /\ Len(returned) = 1
    /\ start_pos # end_pos
    /\ returned[1] # NoPathFound
    /\ IsPathBack(EndChain)
    /\ Len(EndChain) >= 4

\* C15: when MinTurns.search returns a success result, the turn count it
\* returns, recounted by make_path along the predecessor chain, equals the
\* tally recorded for end: turn_count[end] and route[end][0].
C15_RecountEqualsTally ==
    (/\ pc = "idle"
     /\ Len(returned) % 2 = 1
     /\ returned[Len(returned)] # NoPathFound)
        => /\ returned[Len(returned)].turn_count = turn_count[end_pos]
           /\ returned[Len(returned)].turn_count = route[end_pos][1]

\* MinTurns.search has just returned a path with at least two turns.
C15_Witness ==
    /\ pc = "idle"
    /\ Len(returned) = 1
    /\ returned[1] # NoPathFound
    /\ returned[1].turn_count >= 2
    /\ turn_count[end_pos] >= 2

\* C16: whenever both searches succeed on the same inputs, the length
\* ShortestRoute.search returns is at most the path_length MinTurns.search
\* returns.
C16_ShortestNotLongerThanMinTurns ==
    (/\ Returned(2)
     /\ MinTurnsResult # NoPathFound
     /\ ShortestRouteResult # NoPathFound)
        => ShortestRouteResult.path_length <= MinTurnsResult.path_length

=============================================================================
